---- MODULE Spec2Model ----
(***************************************************************************)
(* Model of main.py: N-in-1 tiling of PDF pages onto A4 sheets             *)
(* (build_grid_sheet, process_single_pdf, images_to_pdf), the greedy       *)
(* size-bounded merge (merge_by_size, merge_pdfs) and the batch driver     *)
(* (main).                                                                 *)
(*                                                                         *)
(* Four specifications share the variables:                                *)
(*   Spec       the whole run of main() over a source directory            *)
(*   SpecMerge  merge_by_size on an arbitrary list of tiled documents      *)
(*   SpecTile   process_single_pdf on an arbitrary document and grid       *)
(*   SpecGrid   build_grid_sheet on an arbitrary list of images            *)
(***************************************************************************)
EXTENDS Integers, Sequences, FiniteSets, TLC

\* ---------------------------------------------------------------- constants
COLS == 4
ROWS == 5
PAGES_PER_SHEET == COLS * ROWS
TARGET_MB == 20
A4_W == 2480
A4_H == 3508

\* ------------------------------------------------------------------- bounds
MaxCols == 3
MaxRows == 2
MaxImgs == 6
MaxPages == 21
MaxPps == 7
MaxRunPages == 2
MaxDocs == 3
MaxSizeUnits == 6
MaxTargetUnits == 3

\* File sizes are enumerated in steps of 4 MiB, thresholds in steps of 4 MB.
SizeUnit == 4 * 1024 * 1024
Sizes == {k * SizeUnit : k \in 1..MaxSizeUnits}
TargetMBs == {4 * t : t \in 0..MaxTargetUnits} \cup {TARGET_MB}

\* Pixel sizes of rasterized pages: tiny, landscape and larger than A4,
\* tall and narrow.
ImgDims == {<<1, 1>>, <<3 * A4_H, A4_W>>, <<300, 9000>>}

None == "none"
ValueError == "ValueError"
IndexError == "IndexError"

\* ------------------------------------------------------------------ helpers
Abs(x) == IF x < 0 THEN -x ELSE x
Max(a, b) == IF a >= b THEN a ELSE b
Min(a, b) == IF a <= b THEN a ELSE b

\* Python's seq[a:b] for 0 <= a, 0 <= b (0-based, end exclusive, clamped).
Slice(seq, a, b) == SubSeq(seq, a + 1, Min(b, Len(seq)))

\* Python's list(range(lo, hi, step)) for step > 0.
Range(lo, hi, step) ==
    IF hi <= lo THEN << >>
    ELSE [k \in 1..(((hi - lo - 1) \div step) + 1) |-> lo + (k - 1) * step]

RECURSIVE Flatten(_)
Flatten(ss) == IF ss = << >> THEN << >> ELSE Head(ss) \o Flatten(Tail(ss))

RECURSIVE SumSeq(_)
SumSeq(s) == IF s = << >> THEN 0 ELSE Head(s) + SumSeq(Tail(s))

SeqsUpTo(S, n) == UNION {[1..k -> S] : k \in 0..n}

\* An image: id is the source page number, 0 for a blank filler image.
Image(id, w, h) == [id |-> id, w |-> w, h |-> h]

\* ---------------------------------------------------------- build_grid_sheet
\* PIL's Image.thumbnail((cw, ch)): leaves an image that already fits alone,
\* otherwise shrinks it to the largest size inside cw x ch with its aspect
\* ratio, rounding the free axis to the nearer integer and never below 1.
Thumbnail(img, cw, ch) ==
    IF cw >= img.w /\ ch >= img.h THEN img
    ELSE IF cw * img.h >= img.w * ch
         THEN LET num == ch * img.w
                  lo == num \div img.h
                  hi == IF num % img.h = 0 THEN lo ELSE lo + 1
                  pick == IF Abs(num - lo * img.h) <= Abs(num - hi * img.h)
                          THEN lo ELSE hi
              IN  [img EXCEPT !.w = Max(pick, 1), !.h = ch]
         ELSE LET num == cw * img.h
                  lo == num \div img.w
                  hi == IF num % img.w = 0 THEN lo ELSE lo + 1
                  pick == IF lo = 0 \/ Abs(img.w * lo - num) * hi
                                        <= Abs(img.w * hi - num) * lo
                          THEN lo ELSE hi
              IN  [img EXCEPT !.w = cw, !.h = Max(pick, 1)]

OffsetUncentred(cell, size) == cell - size

\* offset_x = (cell_w - img.width) // 2
Offset(cell, size) == (cell - size) \div 2

\* One iteration of the paste loop: where image number idx lands.
Paste(img, idx, cols, cell_w, cell_h) ==
    LET t == Thumbnail(img, cell_w, cell_h)
        col == idx % cols
        row == idx \div cols
    IN  [id |-> img.id, col |-> col, row |-> row,
         x |-> col * cell_w + Offset(cell_w, t.w),
         y |-> row * cell_h + Offset(cell_h, t.h),
         w |-> t.w, h |-> t.h]

\* thumbnail() resizes in place, and process_single_pdf appends one blank
\* object several times; a second thumbnail of the shrunk blank changes
\* nothing, so pasting by value gives the same sheet.
BuildGridSheet(images, cols, rows) ==
    IF Len(images) # cols * rows
    THEN [err |-> ValueError, w |-> 0, h |-> 0, cells |-> << >>]
    ELSE LET cell_w == A4_W \div cols
             cell_h == A4_H \div rows
         IN  [err |-> None, w |-> A4_W, h |-> A4_H,
              cells |-> [k \in 1..Len(images) |->
                            Paste(images[k], k - 1, cols, cell_w, cell_h)]]

\* ------------------------------------------------------- process_single_pdf
Blank == Image(0, A4_W, A4_H)

PadNot(seq, k) == seq

\* while len(seq) < k: seq.append(blank)
Pad(seq, k) ==
    IF Len(seq) < k THEN seq \o [i \in 1..(k - Len(seq)) |-> Blank] ELSE seq

ChunkStartsInclusive(n, pps) == Range(0, n + 1, pps)

\* range(0, n, pages_per_sheet)
ChunkStarts(n, pps) == Range(0, n, pps)

\* The groups handed to build_grid_sheet, in call order.
Groups(imgs, pps, cols, rows) ==
    LET grid == cols * rows
        starts == ChunkStarts(Len(imgs), pps)
        inner == Range(0, pps, grid)
        GroupsOf(i) ==
            LET chunk == Pad(Slice(imgs, i, i + pps), pps)
            IN  [m \in 1..Len(inner) |->
                    Pad(Slice(chunk, inner[m], inner[m] + grid), grid)]
    IN  Flatten([c \in 1..Len(starts) |-> GroupsOf(starts[c])])

\* images[0].save(..., save_all=True, append_images=images[1:])
ImagesToPdf(sheets) ==
    IF sheets = << >> THEN [err |-> IndexError, pages |-> << >>]
    ELSE [err |-> None, pages |-> sheets]

\* The document process_single_pdf encodes, or the exception it raises.
ProcessSinglePdf(imgs, pps, cols, rows) ==
    LET groups == Groups(imgs, pps, cols, rows)
        sheets == [g \in 1..Len(groups) |-> BuildGridSheet(groups[g], cols, rows)]
    IN  IF \E g \in 1..Len(sheets) : sheets[g].err # None
        THEN [err |-> ValueError, pages |-> << >>]
        ELSE ImagesToPdf(sheets)

\* pdf_to_images of a document of n pages, each rasterized to dims.
PdfToImages(n, dims) == [p \in 1..n |-> Image(p, dims[1], dims[2])]

\* -------------------------------------------------------------- file system
\* A directory's files: a function from file name to content.
NoFiles == [q \in {} |-> None]

WriteFile(files, path, content) ==
    [q \in DOMAIN files \cup {path} |-> IF q = path THEN content ELSE files[q]]

Entry(stem, suffix, is_file) ==
    [stem |-> stem, suffix |-> suffix, is_file |-> is_file]

\* The entries SRC_DIR may hold, in the order sorted() puts their paths
\* (byte order: "a.PDF" < "a.pdf"). d.pdf is a directory.
DirEntries ==
    << Entry("a", ".PDF", TRUE), Entry("a", ".pdf", TRUE),
       Entry("b", ".pdf", TRUE), Entry("c", ".txt", TRUE),
       Entry("d", ".pdf", FALSE), Entry("e", ".pdf", TRUE) >>

\* Path.name, from Path.stem and Path.suffix
Name(e) == e.stem \o e.suffix

\* str.lower() on the suffixes in use
Lower(s) == IF s = ".PDF" THEN ".pdf" ELSE s

\* sorted(p for p in SRC_DIR.iterdir()
\*        if p.is_file() and p.suffix.lower() == '.pdf')
ListPdfs(dir) ==
    SelectSeq(DirEntries,
              LAMBDA e : e \in dir /\ e.is_file /\ Lower(e.suffix) = ".pdf")

NoSourceNever(pdfs) == FALSE

\* if not src_pdfs
NoSource(pdfs) == pdfs = << >>

\* f"{pdf_path.stem}_{COLS}x{ROWS}.pdf"
TiledName(stem, cols, rows) ==
    stem \o "_" \o ToString(cols) \o "x" \o ToString(rows) \o ".pdf"

\* The content of a tiled document on disk.
TiledFile(src, pages, size, complete) ==
    [src |-> src, pages |-> pages, size |-> size, complete |-> complete]

\* -------------------------------------------------------------- merge_by_size
ShouldFlushBeforeAdding(current_size, sz, target_bytes, current_docs) ==
    current_size > target_bytes /\ current_docs # << >>

ShouldFlushAtThreshold(current_size, sz, target_bytes, current_docs) ==
    current_size + sz >= target_bytes /\ current_docs # << >>

\* if current_size + sz > target_bytes and current_docs
ShouldFlush(current_size, sz, target_bytes, current_docs) ==
    current_size + sz > target_bytes /\ current_docs # << >>

MergedNameUnpadded(i) == "merged_part" \o ToString(i) \o ".pdf"

\* f"merged_part{idx:03d}.pdf"
MergedName(i) ==
    "merged_part"
        \o (IF i < 10 THEN "00" ELSE IF i < 100 THEN "0" ELSE "")
        \o ToString(i) \o ".pdf"

MergePdfsReversed(docs, files) ==
    [docs |-> [i \in 1..Len(docs) |-> docs[Len(docs) + 1 - i]],
     pages |-> SumSeq([i \in 1..Len(docs) |-> files[docs[i]].pages])]

\* merge_pdfs: the written document holds the pages of every source, in order.
MergePdfs(docs, files) ==
    [docs |-> docs,
     pages |-> SumSeq([i \in 1..Len(docs) |-> files[docs[i]].pages])]

VARIABLES
    pc,               \* where the run is
    src_dir,          \* entries of SRC_DIR
    src_pdfs,         \* main: sorted source PDFs
    doc_i,            \* main: position of the tiling loop in src_pdfs
    small_pdfs,       \* main: paths returned by process_single_pdf
    out_dir_exists,   \* OUT_DIR has been created
    tiled,            \* files of OUT_DIR
    stdout,           \* lines printed
    raised,           \* the uncaught exception that ended the run
    pdf_paths,        \* merge_by_size: argument
    target_mb,        \* merge_by_size: argument
    target_bytes, p_i, current_docs, current_size, idx, out_list,
    merge_dir_exists, \* MERGE_DIR has been created
    merged,           \* files of MERGE_DIR
    merge_calls,      \* calls of merge_pdfs, in order
    g_in, g_out,      \* build_grid_sheet: arguments and result
    t_in, t_out       \* process_single_pdf: arguments and encoded document

mainVars == <<src_dir, src_pdfs, doc_i, small_pdfs, out_dir_exists, tiled, stdout, raised>>
mergeArgs == <<pdf_paths, target_mb>>
mergeLocals == <<target_bytes, p_i, current_docs, current_size, idx, out_list>>
mergeFiles == <<merge_dir_exists, merged, merge_calls>>
fnVars == <<g_in, g_out, t_in, t_out>>
vars == <<pc, mainVars, mergeArgs, mergeLocals, mergeFiles, fnVars>>

NoGrid == [cols |-> 0, rows |-> 0, images |-> << >>]
NoSheet == [err |-> None, w |-> 0, h |-> 0, cells |-> << >>]
NoTile == [n |-> 0, pps |-> 0, cols |-> 0, rows |-> 0, dims |-> <<0, 0>>]
NoPdf == [err |-> None, pages |-> << >>]

FnIdle == g_in = NoGrid /\ g_out = NoSheet /\ t_in = NoTile /\ t_out = NoPdf

MergeLocalsIdle ==
    /\ target_bytes = 0
    /\ p_i = 0
    /\ current_docs = << >>
    /\ current_size = 0
    /\ idx = 0
    /\ out_list = << >>
    /\ merge_dir_exists = FALSE
    /\ merged = NoFiles
    /\ merge_calls = << >>

MainIdle ==
    /\ src_dir = {}
    /\ src_pdfs = << >>
    /\ doc_i = 0
    /\ small_pdfs = << >>
    /\ out_dir_exists = FALSE
    /\ tiled = NoFiles
    /\ stdout = << >>
    /\ raised = None
    /\ pdf_paths = << >>
    /\ target_mb = 0
    /\ MergeLocalsIdle

Line(what, arg) == [line |-> what, arg |-> arg]

\* ------------------------------------------------------------------ SpecGrid
GridInputs ==
    {[cols |-> c, rows |-> r,
      images |-> [k \in 1..Len(ds) |-> Image(k, ds[k][1], ds[k][2])]] :
        c \in 1..MaxCols, r \in 1..MaxRows, ds \in SeqsUpTo(ImgDims, MaxImgs)}

InitGrid ==
    /\ pc = "grid_call"
    /\ g_in \in GridInputs
    /\ g_out = NoSheet
    /\ t_in = NoTile
    /\ t_out = NoPdf
    /\ MainIdle

CallBuildGridSheet ==
    /\ pc = "grid_call"
    /\ g_out' = BuildGridSheet(g_in.images, g_in.cols, g_in.rows)
    /\ pc' = "grid_done"
    /\ UNCHANGED <<g_in, t_in, t_out, mainVars, mergeArgs, mergeLocals, mergeFiles>>

NextGrid == CallBuildGridSheet

SpecGrid == InitGrid /\ [][NextGrid]_vars

\* ------------------------------------------------------------------ SpecTile
TileInputs ==
    [n : 0..MaxPages, pps : (1..MaxPps) \cup {PAGES_PER_SHEET},
     cols : (1..MaxCols) \cup {COLS}, rows : (1..MaxRows) \cup {ROWS},
     dims : ImgDims]

InitTile ==
    /\ pc = "tile_call"
    /\ t_in \in TileInputs
    /\ t_out = NoPdf
    /\ g_in = NoGrid
    /\ g_out = NoSheet
    /\ MainIdle

CallProcessSinglePdf ==
    /\ pc = "tile_call"
    /\ t_out' = ProcessSinglePdf(PdfToImages(t_in.n, t_in.dims),
                                 t_in.pps, t_in.cols, t_in.rows)
    /\ pc' = "tile_done"
    /\ UNCHANGED <<g_in, g_out, t_in, mainVars, mergeArgs, mergeLocals, mergeFiles>>

NextTile == CallProcessSinglePdf

SpecTile == InitTile /\ [][NextTile]_vars

\* ------------------------------------------------------------- merge_by_size
\* merge_dir.mkdir(...); target_bytes = ...; out_list, current_*, idx = ...
MergeBegin ==
    /\ pc = "merge"
    /\ merge_dir_exists' = TRUE
    /\ target_bytes' = target_mb * 1024 * 1024
    /\ out_list' = << >>
    /\ current_size' = 0
    /\ current_docs' = << >>
    /\ idx' = 0
    /\ p_i' = 1
    /\ pc' = "merge_loop"
    /\ UNCHANGED <<merged, merge_calls, mainVars, mergeArgs, fnVars>>

\* One iteration of "for p in pdf_paths".
MergeLoop ==
    /\ pc = "merge_loop"
    /\ p_i <= Len(pdf_paths)
    /\ LET p == pdf_paths[p_i]
           sz == tiled[p].size
           flush == ShouldFlush(current_size, sz, target_bytes, current_docs)
           out_file == MergedName(idx)
       IN  /\ merged' = IF flush
                        THEN WriteFile(merged, out_file, MergePdfs(current_docs, tiled))
                        ELSE merged
           /\ merge_calls' = IF flush
                             THEN Append(merge_calls,
                                         [docs |-> current_docs, output |-> out_file])
                             ELSE merge_calls
           /\ out_list' = IF flush THEN Append(out_list, out_file) ELSE out_list
           /\ idx' = IF flush THEN idx + 1 ELSE idx
           /\ current_docs' = Append(IF flush THEN << >> ELSE current_docs, p)
           /\ current_size' = (IF flush THEN 0 ELSE current_size) + sz
    /\ p_i' = p_i + 1
    /\ UNCHANGED <<pc, target_bytes, merge_dir_exists, mainVars, mergeArgs, fnVars>>

\* After the loop: "if current_docs: ..." and "return out_list".
MergeTail ==
    /\ pc = "merge_loop"
    /\ p_i > Len(pdf_paths)
    /\ LET rest == current_docs # << >>
           out_file == MergedName(idx)
       IN  /\ merged' = IF rest
                        THEN WriteFile(merged, out_file, MergePdfs(current_docs, tiled))
                        ELSE merged
           /\ merge_calls' = IF rest
                             THEN Append(merge_calls,
                                         [docs |-> current_docs, output |-> out_file])
                             ELSE merge_calls
           /\ out_list' = IF rest THEN Append(out_list, out_file) ELSE out_list
    /\ pc' = "merge_done"
    /\ UNCHANGED <<target_bytes, p_i, current_docs, current_size, idx,
                   merge_dir_exists, mainVars, mergeArgs, fnVars>>

\* ----------------------------------------------------------------- SpecMerge
MergeDocs(n) == [i \in 1..n |-> TiledName("doc" \o ToString(i), COLS, ROWS)]

InitMerge ==
    /\ pc = "merge"
    /\ \E n \in 0..MaxDocs : \E sz \in [1..n -> Sizes] :
          /\ pdf_paths = MergeDocs(n)
          /\ tiled = [p \in {MergeDocs(n)[i] : i \in 1..n} |->
                        LET i == CHOOSE j \in 1..n : MergeDocs(n)[j] = p
                        IN  TiledFile("doc" \o ToString(i) \o ".pdf", 1, sz[i], TRUE)]
    /\ target_mb \in TargetMBs
    /\ src_dir = {}
    /\ src_pdfs = << >>
    /\ doc_i = 0
    /\ small_pdfs = << >>
    /\ out_dir_exists = TRUE
    /\ stdout = << >>
    /\ raised = None
    /\ MergeLocalsIdle
    /\ FnIdle

NextMerge == MergeBegin \/ MergeLoop \/ MergeTail

SpecMerge == InitMerge /\ [][NextMerge]_vars

\* ---------------------------------------------------------------------- main
Init ==
    /\ pc = "start"
    /\ src_dir \in SUBSET {DirEntries[i] : i \in 1..Len(DirEntries)}
    /\ src_pdfs = << >>
    /\ doc_i = 0
    /\ small_pdfs = << >>
    /\ out_dir_exists = FALSE
    /\ tiled = NoFiles
    /\ stdout = << >>
    /\ raised = None
    /\ pdf_paths = << >>
    /\ target_mb = 0
    /\ MergeLocalsIdle
    /\ FnIdle

\* Step 1 of main: list the source PDFs; return when there is none.
MainList ==
    /\ pc = "start"
    /\ src_pdfs' = ListPdfs(src_dir)
    /\ IF NoSource(src_pdfs')
       THEN /\ stdout' = Append(stdout, Line("not_found", ""))
            /\ pc' = "done"
            /\ doc_i' = doc_i
       ELSE /\ stdout' = Append(stdout, Line("found", ToString(Len(src_pdfs'))))
            /\ pc' = "tile"
            /\ doc_i' = 1
    /\ UNCHANGED <<src_dir, small_pdfs, out_dir_exists, tiled, raised,
                   mergeArgs, mergeLocals, mergeFiles, fnVars>>

\* One iteration of "for pdf in src_pdfs" in which the document is read:
\* it has n pages of size dims (n = 0: a PDF without pages), and the encoded
\* file takes sz bytes.
\* process_single_pdf raises when images_to_pdf gets no sheet.
TileDocument ==
    /\ pc = "tile"
    /\ doc_i <= Len(src_pdfs)
    /\ \E n \in 0..MaxRunPages, dims \in ImgDims, sz \in Sizes :
          LET pdf == src_pdfs[doc_i]
              out_pdf == TiledName(pdf.stem, COLS, ROWS)
              doc == ProcessSinglePdf(PdfToImages(n, dims), PAGES_PER_SHEET, COLS, ROWS)
          IN  /\ stdout' = Append(stdout, Line("tiling", Name(pdf)))
              /\ out_dir_exists' = TRUE
              /\ IF doc.err # None
                 THEN /\ pc' = "crashed"
                      /\ raised' = doc.err
                      /\ UNCHANGED <<tiled, small_pdfs, doc_i>>
                 ELSE /\ tiled' = WriteFile(tiled, out_pdf,
                                     TiledFile(Name(pdf), Len(doc.pages), sz, TRUE))
                      /\ small_pdfs' = Append(small_pdfs, out_pdf)
                      /\ doc_i' = doc_i + 1
                      /\ UNCHANGED <<pc, raised>>
    /\ UNCHANGED <<src_dir, src_pdfs, mergeArgs, mergeLocals, mergeFiles, fnVars>>

\* The iteration in which pdf_to_images raises (fitz.open or get_pixmap).
RasterizeFails ==
    /\ pc = "tile"
    /\ doc_i <= Len(src_pdfs)
    /\ stdout' = Append(stdout, Line("tiling", Name(src_pdfs[doc_i])))
    /\ out_dir_exists' = TRUE
    /\ pc' = "crashed"
    /\ raised' = "FileDataError"
    /\ UNCHANGED <<src_dir, src_pdfs, doc_i, small_pdfs, tiled,
                   mergeArgs, mergeLocals, mergeFiles, fnVars>>

\* The iteration in which images[0].save raises: before the output file is
\* opened for writing, or after, leaving it truncated.
EncodeFails ==
    /\ pc = "tile"
    /\ doc_i <= Len(src_pdfs)
    /\ \E opened \in BOOLEAN :
          LET pdf == src_pdfs[doc_i]
              out_pdf == TiledName(pdf.stem, COLS, ROWS)
          IN  tiled' = IF opened
                       THEN WriteFile(tiled, out_pdf, TiledFile(Name(pdf), 0, 0, FALSE))
                       ELSE tiled
    /\ stdout' = Append(stdout, Line("tiling", Name(src_pdfs[doc_i])))
    /\ out_dir_exists' = TRUE
    /\ pc' = "crashed"
    /\ raised' = "OSError"
    /\ UNCHANGED <<src_dir, src_pdfs, doc_i, small_pdfs,
                   mergeArgs, mergeLocals, mergeFiles, fnVars>>

\* The tiling loop is over: merge_by_size(small_pdfs, MERGE_DIR, TARGET_MB).
TilingDone ==
    /\ pc = "tile"
    /\ doc_i > Len(src_pdfs)
    /\ stdout' = Append(stdout, Line("tiled", ""))
    /\ pdf_paths' = small_pdfs
    /\ target_mb' = TARGET_MB
    /\ pc' = "merge"
    /\ UNCHANGED <<src_dir, src_pdfs, doc_i, small_pdfs, out_dir_exists, tiled,
                   raised, mergeLocals, mergeFiles, fnVars>>

\* The summary: one line per merged file (its size figure is left out).
Summary ==
    /\ pc = "merge_done"
    /\ stdout' = stdout \o <<Line("finished", "")>>
                        \o [i \in 1..Len(out_list) |-> Line("merged", out_list[i])]
    /\ pc' = "done"
    /\ UNCHANGED <<src_dir, src_pdfs, doc_i, small_pdfs, out_dir_exists, tiled,
                   raised, mergeArgs, mergeLocals, mergeFiles, fnVars>>

Next ==
    \/ MainList
    \/ TileDocument
    \/ RasterizeFails
    \/ EncodeFails
    \/ TilingDone
    \/ MergeBegin
    \/ MergeLoop
    \/ MergeTail
    \/ Summary

Spec == Init /\ [][Next]_vars

\* -------------------------------------------------------------------- claims
\* The documents of the i-th file merge_by_size returned, as that file holds them.
FlushedGroups == [i \in 1..Len(out_list) |-> merged[out_list[i]].docs]

SizeOf(p) == tiled[p].size

GroupSize(g) == SumSeq([i \in 1..Len(g) |-> SizeOf(g[i])])

InMerge == pc \in {"merge_loop", "merge_done"}

CeilDiv(n, g) == (n + g - 1) \div g

\* C1: the merge groups, concatenated in flush order, are exactly the input
\* sequence: during the loop the flushed groups followed by the running group
\* are the documents consumed so far, and when merge_by_size returns the
\* flushed groups are the whole input, nothing dropped, repeated or reordered.
C1_MergeReproducesInput ==
    /\ pc = "merge_loop" =>
          Flatten(FlushedGroups) \o current_docs = SubSeq(pdf_paths, 1, p_i - 1)
    /\ pc = "merge_done" => Flatten(FlushedGroups) = pdf_paths

C1_Witness ==
    /\ pc = "merge_done"
    /\ Len(out_list) = 2
    /\ Len(FlushedGroups[1]) = 2
    /\ Len(pdf_paths) = 3

\* C2: every flushed group's total source size is at most the threshold,
\* unless it is one document that alone exceeds the threshold; a document
\* larger than the threshold shares its group with no other document.
C2_GroupsWithinThreshold ==
    InMerge =>
        \A i \in 1..Len(out_list) :
            LET g == FlushedGroups[i]
            IN  /\ \/ GroupSize(g) <= target_bytes
                   \/ Len(g) = 1 /\ SizeOf(g[1]) > target_bytes
                /\ \A j \in 1..Len(g) : SizeOf(g[j]) > target_bytes => Len(g) = 1

C2_Witness ==
    /\ pc = "merge_done"
    /\ Len(out_list) = 3
    /\ target_bytes > 0
    /\ Len(FlushedGroups[2]) = 1
    /\ SizeOf(FlushedGroups[2][1]) > target_bytes
    /\ GroupSize(FlushedGroups[1]) <= target_bytes
    /\ GroupSize(FlushedGroups[3]) <= target_bytes

\* C3: with pages_per_sheet = cols * rows = G, a document of N >= 1 pages is
\* encoded, and the encoded tiled document has exactly ceil(N / G) sheets,
\* whose cells hold the N pages and G * ceil(N / G) - N blanks.
C3_TiledPageCount ==
    (pc = "tile_done" /\ t_in.pps = t_in.cols * t_in.rows) =>
        LET G == t_in.cols * t_in.rows
            cells == Flatten([s \in 1..Len(t_out.pages) |-> t_out.pages[s].cells])
        IN  /\ t_in.n >= 1 => t_out.err = None
            /\ t_out.err = None =>
                  /\ Len(t_out.pages) = CeilDiv(t_in.n, G)
                  /\ Cardinality({c \in 1..Len(cells) : cells[c].id = 0})
                        = G * CeilDiv(t_in.n, G) - t_in.n

C3_Witness ==
    /\ pc = "tile_done"
    /\ t_in.n = 17
    /\ t_in.cols = COLS
    /\ t_in.rows = ROWS
    /\ t_in.pps = PAGES_PER_SHEET
    /\ t_out.err = None
    /\ Len(t_out.pages) = 1
    /\ Cardinality({c \in 1..20 : t_out.pages[1].cells[c].id = 0}) = 3

\* C4: every source PDF gets a tiled document of its own: the paths handed to
\* the merger are pairwise distinct, and once tiling is over there is one
\* tiled file per source PDF, the i-th path holding the i-th source's tiling.
C4_OneTiledDocumentPerSource ==
    /\ \A i, j \in 1..Len(small_pdfs) : i # j => small_pdfs[i] # small_pdfs[j]
    /\ pc \in {"merge", "merge_loop", "merge_done"} =>
          /\ Len(small_pdfs) = Len(src_pdfs)
          /\ Cardinality(DOMAIN tiled) = Len(src_pdfs)
          /\ \A i \in 1..Len(small_pdfs) :
                tiled[small_pdfs[i]].src = Name(src_pdfs[i])

\* C5: the merged files are numbered from 0 in flush order: the i-th call of
\* merge_pdfs writes merged_part00(i-1).pdf, the files on disk are exactly
\* those names with no gap or repeat, and an empty input writes no file.
PartNames ==
    << "merged_part000.pdf", "merged_part001.pdf", "merged_part002.pdf",
       "merged_part003.pdf", "merged_part004.pdf", "merged_part005.pdf" >>

C5_MergedFilesNumbered ==
    /\ Len(out_list) <= Len(PartNames)
    /\ out_list = SubSeq(PartNames, 1, Len(out_list))
    /\ DOMAIN merged = {PartNames[i] : i \in 1..Len(out_list)}
    /\ Len(merge_calls) = Len(out_list)
    /\ \A i \in 1..Len(merge_calls) :
          /\ merge_calls[i].output = PartNames[i]
          /\ merged[PartNames[i]].docs = merge_calls[i].docs
    /\ pdf_paths = << >> => DOMAIN merged = {}

C5_Witness ==
    /\ pc = "merge_done"
    /\ Len(out_list) = 3
    /\ DOMAIN merged = {"merged_part000.pdf", "merged_part001.pdf", "merged_part002.pdf"}

\* C6: when the source directory holds no .pdf file, the run prints the
\* not-found line and ends normally without tiling or merging: no output
\* directory, tiled file or merged file is ever created.
NoPdfInDir ==
    \A e \in src_dir : ~(e.is_file /\ e.suffix \in {".pdf", ".PDF"})

C6_EmptySourceNoOutput ==
    NoPdfInDir =>
        /\ pc \in {"start", "done"}
        /\ ~out_dir_exists
        /\ ~merge_dir_exists
        /\ DOMAIN tiled = {}
        /\ DOMAIN merged = {}
        /\ merge_calls = << >>
        /\ raised = None
        /\ pc = "done" => stdout = <<Line("not_found", "")>>

C6_Witness ==
    /\ pc = "done"
    /\ NoPdfInDir
    /\ src_dir # {}
    /\ stdout = <<Line("not_found", "")>>

\* C7: when the k-th document fails, the batch aborts before the merge phase
\* (no merged file, no merge directory) and the tiled documents of documents
\* 1..k-1 are on disk, complete; the merge phase starts only once every
\* source document has been tiled.
C7_AbortKeepsCompletedOutputs ==
    /\ pc = "crashed" =>
          /\ ~merge_dir_exists
          /\ DOMAIN merged = {}
          /\ merge_calls = << >>
          /\ Len(small_pdfs) = doc_i - 1
          /\ \A i \in 1..(doc_i - 1) :
                LET out == TiledName(src_pdfs[i].stem, COLS, ROWS)
                IN  /\ out \in DOMAIN tiled
                    /\ tiled[out].src = Name(src_pdfs[i])
                    /\ tiled[out].complete
    /\ pc \in {"merge", "merge_loop", "merge_done"} =>
          /\ raised = None
          /\ Len(small_pdfs) = Len(src_pdfs)

\* C8: a flush happens before a document exactly when the running group is
\* non-empty and its size plus the document's exceeds the threshold: each
\* group followed by another could not take that group's first document
\* without exceeding the threshold, and inside a group every document after
\* the first was added with the running total still at most the threshold.
C8_FlushExactlyWhenExceeding ==
    InMerge =>
        LET gs == FlushedGroups \o
                    (IF pc = "merge_loop" /\ current_docs # << >>
                     THEN <<current_docs>> ELSE << >>)
        IN  /\ \A i \in 1..Len(gs) : gs[i] # << >>
            /\ \A i \in 1..(Len(gs) - 1) :
                  GroupSize(gs[i]) + SizeOf(gs[i + 1][1]) > target_bytes
            /\ \A i \in 1..Len(gs) : \A j \in 2..Len(gs[i]) :
                  GroupSize(SubSeq(gs[i], 1, j)) <= target_bytes

C8_Witness ==
    /\ pc = "merge_done"
    /\ Len(out_list) = 2
    /\ Len(FlushedGroups[1]) = 2
    /\ GroupSize(FlushedGroups[1]) = target_bytes

\* C9: for every page count and every pages_per_sheet >= 1, each group handed
\* to build_grid_sheet has exactly cols * rows images, source pages first and
\* blanks after them, so build_grid_sheet never raises and every sheet has
\* cols * rows cells.
C9_GroupsHaveGridSize ==
    pc = "tile_done" =>
        LET G == t_in.cols * t_in.rows
            gs == Groups(PdfToImages(t_in.n, t_in.dims), t_in.pps, t_in.cols, t_in.rows)
        IN  /\ t_out.err # ValueError
            /\ \A g \in 1..Len(gs) :
                  /\ Len(gs[g]) = G
                  /\ \A a, b \in 1..Len(gs[g]) :
                        (a < b /\ gs[g][a].id = 0) => gs[g][b].id = 0
            /\ \A s \in 1..Len(t_out.pages) : Len(t_out.pages[s].cells) = G

C9_Witness ==
    /\ pc = "tile_done"
    /\ t_in.pps = 7
    /\ t_in.cols * t_in.rows = 6
    /\ t_in.n = 9
    /\ t_out.err = None
    /\ Len(t_out.pages) = 4
    /\ t_out.pages[4].cells[1].id = 0

\* C10: with cols * rows images, image idx goes to cell (idx % cols,
\* idx // cols); the cells used are all cols * rows cells of the grid, each
\* once; every pasted image is at most cell-sized, centred in its own cell
\* (margins differ by at most one pixel) and inside the A4_W x A4_H canvas.
C10_GridPlacement ==
    (pc = "grid_done" /\ g_out.err = None) =>
        LET cols == g_in.cols
            rows == g_in.rows
            cw == A4_W \div cols
            ch == A4_H \div rows
            cells == g_out.cells
        IN  /\ Len(cells) = cols * rows
            /\ g_out.w = A4_W /\ g_out.h = A4_H
            /\ \A k \in 1..Len(cells) :
                  /\ cells[k].col = (k - 1) % cols
                  /\ cells[k].row = (k - 1) \div cols
            /\ {<<cells[k].col, cells[k].row>> : k \in 1..Len(cells)}
                  = (0..(cols - 1)) \X (0..(rows - 1))
            /\ \A k \in 1..Len(cells) :
                  LET c == cells[k]
                      left == c.x - c.col * cw
                      right == (c.col + 1) * cw - (c.x + c.w)
                      top == c.y - c.row * ch
                      bottom == (c.row + 1) * ch - (c.y + c.h)
                  IN  /\ c.w >= 1 /\ c.h >= 1
                      /\ left >= 0 /\ right >= 0 /\ top >= 0 /\ bottom >= 0
                      /\ right - left \in {0, 1}
                      /\ bottom - top \in {0, 1}
                      /\ c.x >= 0 /\ c.y >= 0
                      /\ c.x + c.w <= A4_W
                      /\ c.y + c.h <= A4_H

C10_Witness ==
    /\ pc = "grid_done"
    /\ g_out.err = None
    /\ g_in.cols = 3
    /\ g_in.rows = 2
    /\ \E k \in 1..6 : g_out.cells[k].w < g_in.images[k].w
    /\ \E k \in 1..6 : g_out.cells[k].w = 1 /\ g_out.cells[k].col = 2
                       /\ g_out.cells[k].row = 1

====
